---- MODULE Spec2Model ----
(***************************************************************************)
(* Model of compare.py: reconciliation of product catalogs.               *)
(*                                                                         *)
(* Python objects with identity are modelled by references:               *)
(*   - an item (a dict built by prepare_parsed_list) is the pair          *)
(*     <<source_name, ean_code>>: a source's map holds one item per key;  *)
(*   - a 'bind' list (a match group) is an index into the heap `groups`;  *)
(*     `bind` is defined exactly on the items that have a 'bind' key;     *)
(*   - a connected list of match_brands is an index into `brand_lists`.   *)
(* Python dicts keep insertion order, so they are sequences of entries.   *)
(* Texts (brand, alias) are sequences of one-character words; the text    *)
(* is the words joined by single blanks.                                  *)
(***************************************************************************)
EXTENDS Integers, Sequences, FiniteSets, TLC

\* ------------------------------------------------------------------ bounds
MaxTotal == 3          \* records over all sources together

\* the three data files of __main__, in the order they are added
NumSources == 3
Sources == 1..NumSources

\* default thresholds of match_brands / append_by_alias
BrandThreshold == 85
AliasThreshold == 85

\* ------------------------------------------------------------ small helpers
Min2(a, b) == IF a < b THEN a ELSE b
Max2(a, b) == IF a > b THEN a ELSE b

Range(s) == {s[i] : i \in DOMAIN s}

\* position of the first entry of dict d (a sequence of entries) with key k, 0 if none
RECURSIVE KeyPosFrom(_, _, _)
KeyPosFrom(d, k, i) ==
    IF i > Len(d) THEN 0
    ELSE IF d[i].key = k THEN i
    ELSE KeyPosFrom(d, k, i + 1)
KeyPos(d, k) == KeyPosFrom(d, k, 1)
HasKey(d, k) == KeyPos(d, k) # 0
Get(d, k) == d[KeyPos(d, k)].val
\* d[k] = v : a present key keeps its place, a new key goes last
Put(d, k, v) ==
    IF HasKey(d, k) THEN [d EXCEPT ![KeyPos(d, k)] = [key |-> k, val |-> v]]
    ELSE Append(d, [key |-> k, val |-> v])

\* ------------------------------------------ fuzz.token_set_ratio, extractOne
\* int(round(100 * 2.0 * M / T)), Python 3 rounding (half to even)
Round100(M, T) ==
    LET q == (200 * M) \div T
        r2 == 2 * ((200 * M) % T)
    IN  IF r2 > T THEN q + 1
        ELSE IF r2 < T THEN q
        ELSE IF q % 2 = 0 THEN q ELSE q + 1

\* len(" ".join(ws)) for n one-character words
JoinedLen(n) == IF n = 0 THEN 0 ELSE 2 * n - 1

\* fuzz.ratio of two strings of lengths l1, l2 with M matching characters
Ratio(M, l1, l2) == IF l1 = 0 \/ l2 = 0 THEN 0 ELSE Round100(M, l1 + l2)

\* fuzz.token_set_ratio as process.extractOne calls it (full_process done once)
TokenSetRatio(s1, s2) ==
    IF s1 = s2 THEN 100
    ELSE IF Len(s1) = 0 \/ Len(s2) = 0 THEN 0
    ELSE LET t1 == Range(s1)
             t2 == Range(s2)
             i  == Cardinality(t1 \cap t2)
             n1 == Cardinality(t1 \ t2)
             n2 == Cardinality(t2 \ t1)
             l0 == JoinedLen(i)            \* sorted_sect
             l1 == JoinedLen(i + n1)       \* combined_1to2
             l2 == JoinedLen(i + n2)       \* combined_2to1
             \* the common prefix "sect ", then only blanks can match
             m12 == IF n1 = 0 \/ n2 = 0 THEN Min2(l1, l2)
                    ELSE (IF i = 0 THEN 0 ELSE 2 * i) + Min2(n1, n2) - 1
         IN  Max2(Max2(Ratio(l0, l0, l1), Ratio(l0, l0, l2)), Ratio(m12, l1, l2))

\* process.extractOne(query, choices, scorer=token_set_ratio): the first choice
\* of maximal score as [choice, score]; the caller tests choices # <<>> (None)
RECURSIVE BestFrom(_, _, _, _)
BestFrom(query, choices, i, best) ==
    IF i > Len(choices) THEN best
    ELSE LET sc == TokenSetRatio(query, choices[i])
         IN  BestFrom(query, choices, i + 1,
                      IF sc > best.score THEN [choice |-> choices[i], score |-> sc]
                      ELSE best)
ExtractOne(query, choices) ==
    BestFrom(query, choices, 2,
             [choice |-> choices[1], score |-> TokenSetRatio(query, choices[1])])

\* ------------------------------------------------------------------- state
VARIABLES
    pc,                 \* position in __main__
    raw_recs,           \* per source, the parsed records handed to add_source
    order,              \* the order in which the sources are added
    sources,            \* dict source -> dict ean -> item
    bind,               \* item ref -> its 'bind' list, for the items that have one
    groups,             \* heap of 'bind' lists: each a sequence of item refs
    ean_sources,        \* combine_by_ean: sources already combined
    res_eans,           \* combine_by_ean: dict ean -> bind list
    si, ii,             \* loop positions: source (in `sources`), item
    brand_sources,      \* dict source -> dict brand -> items
    res_brands,         \* match_brands: dict brand -> connected list
    brand_lists,        \* heap of connected lists: sequences of tBrand
    res_brand_items,    \* dict brand -> items of all similar brands
    res_arr,            \* combine_items_by_alias: list of bind lists
    last_alias,         \* what the last append_by_alias iteration did
    same_items_list,    \* the merged result list
    alias_similarity_threshold,
    fn                  \* a call of parse_size or create_item: its input, then its result

vars == <<pc, raw_recs, order, sources, bind, groups, ean_sources, res_eans, si, ii,
          brand_sources, res_brands, brand_lists, res_brand_items, res_arr,
          last_alias, same_items_list, alias_similarity_threshold, fn>>

\* -------------------------------------------------------------- input sets
\* words of brands and aliases, weight keys, codes
BrA  == <<"a">>
BrB  == <<"b">>
BrAB == <<"a", "b">>
AlX  == <<"x">>
AlY  == <<"y">>
AlXY == <<"x", "y">>
AlYX == <<"y", "x">>
W1 == "250 ml"
W2 == "100 ml"

\* codes: 1 and 2 occur in every source, OwnCode(s) only in source s
OwnCode(s) == 10 * s

\* ------------------------------------------------- prepare_parsed_list
\* create_item as far as the matchers read it: the fields of one item
NewItem(sour, rec, ean) ==
    [source_name |-> sour, id |-> rec.id, ean_code |-> ean,
     brand |-> rec.brand, wm |-> rec.wm, alias |-> rec.alias]

\* faulty variant: the first record of a code is kept, not the last
RECURSIVE ExpandFrom_KeepFirst(_, _, _, _, _)
ExpandFrom_KeepFirst(sour, recs, i, j, d) ==
    IF i > Len(recs) THEN d
    ELSE IF j > Len(recs[i].EANs) THEN ExpandFrom_KeepFirst(sour, recs, i + 1, 1, d)
    ELSE ExpandFrom_KeepFirst(sour, recs, i, j + 1,
                    IF HasKey(d, recs[i].EANs[j]) THEN d
                    ELSE Put(d, recs[i].EANs[j], NewItem(sour, recs[i], recs[i].EANs[j])))

\* {ean: {**item, 'ean_code': ean} for item in new_items for ean in item['EANs']}
RECURSIVE ExpandFrom(_, _, _, _, _)
ExpandFrom(sour, recs, i, j, d) ==
    IF i > Len(recs) THEN d
    ELSE IF j > Len(recs[i].EANs) THEN ExpandFrom(sour, recs, i + 1, 1, d)
    ELSE ExpandFrom(sour, recs, i, j + 1,
                    Put(d, recs[i].EANs[j], NewItem(sour, recs[i], recs[i].EANs[j])))
prepare_parsed_list(sour, recs) == ExpandFrom(sour, recs, 1, 1, <<>>)

\* the item dict behind a reference
Item(ref) == Get(Get(sources, ref[1]), ref[2])

\* ------------------------------------------------------------------ Init
InitState ==
    /\ pc = "load"
    /\ sources = <<>>
    /\ bind = <<>>
    /\ groups = <<>>
    /\ ean_sources = <<>>
    /\ res_eans = <<>>
    /\ si = 1
    /\ ii = 1
    /\ brand_sources = <<>>
    /\ res_brands = <<>>
    /\ brand_lists = <<>>
    /\ res_brand_items = <<>>
    /\ res_arr = <<>>
    /\ last_alias = [kind |-> "init"]
    /\ same_items_list = <<>>

WithIds(rs) == [i \in DOMAIN rs |->
                  [id |-> i, brand |-> rs[i].brand, wm |-> rs[i].wm,
                   alias |-> rs[i].alias, EANs |-> rs[i].EANs]]

\* every way to hand at most MaxTotal records to the sources, source s drawing from D(s)
InputsFrom(D(_)) ==
    \E lens \in [Sources -> 0..MaxTotal] :
        /\ lens[1] + lens[2] + lens[3] <= MaxTotal
        /\ \E r1 \in [1..lens[1] -> D(1)], r2 \in [1..lens[2] -> D(2)],
              r3 \in [1..lens[3] -> D(3)] :
              raw_recs = <<WithIds(r1), WithIds(r2), WithIds(r3)>>

\* 'bind' in item, item['bind']
HasBind(item) == item \in DOMAIN bind
SetBind(bnd, item, b) == [r \in DOMAIN bnd \cup {item} |-> IF r = item THEN b ELSE bnd[r]]

\* ------------------------------------------------------------ add_source
AddSource ==
    /\ pc = "load"
    /\ LET new_sour == order[si]
           new_items == prepare_parsed_list(new_sour, raw_recs[new_sour])
       IN  sources' = Append(sources, [key |-> new_sour, val |-> new_items])
    /\ IF si = Len(order)
       THEN pc' = "ean" /\ si' = 1
       ELSE pc' = pc /\ si' = si + 1
    /\ UNCHANGED <<raw_recs, order, bind, groups, ean_sources, res_eans, ii,
                   brand_sources, res_brands, brand_lists, res_brand_items,
                   res_arr, last_alias, same_items_list, alias_similarity_threshold, fn>>

\* --------------------------------------------------------- append_by_ean
\* faulty variant: the scan looks at the last combined source only
FirstSourceWith_LastOnly(es, ean, k) ==
    IF es # <<>> /\ HasKey(Get(sources, es[Len(es)]), ean) THEN es[Len(es)] ELSE 0

\* faulty variant: the scan looks at the first combined source only
FirstSourceWith_FirstOnly(es, ean, k) ==
    IF es # <<>> /\ HasKey(Get(sources, es[1]), ean) THEN es[1] ELSE 0

\* the first already combined source whose map holds ean, 0 if none
RECURSIVE FirstSourceWith(_, _, _)
FirstSourceWith(es, ean, k) ==
    IF k > Len(es) THEN 0
    ELSE IF HasKey(Get(sources, es[k]), ean) THEN es[k]
    ELSE FirstSourceWith(es, ean, k + 1)

\* one iteration of the loop over new_items
AppendByEanItem ==
    /\ pc = "ean"
    /\ ii <= Len(sources[si].val)
    /\ LET new_sour == sources[si].key
           ean == sources[si].val[ii].key
           new_item == <<new_sour, ean>>
           sour == FirstSourceWith(ean_sources, ean, 1)
       IN  IF HasKey(res_eans, ean)
           THEN LET b == Get(res_eans, ean)
                IN  /\ groups' = [groups EXCEPT ![b] = Append(@, new_item)]
                    /\ bind' = SetBind(bind, new_item, b)
                    /\ UNCHANGED res_eans
           ELSE IF sour # 0
           THEN LET item0 == <<sour, ean>>
                    b == Len(groups) + 1
                IN  /\ groups' = Append(groups, <<item0, new_item>>)
                    /\ res_eans' = Put(res_eans, ean, b)
                    /\ bind' = SetBind(SetBind(bind, item0, b), new_item, b)
           ELSE UNCHANGED <<groups, res_eans, bind>>
    /\ ii' = ii + 1
    /\ UNCHANGED <<pc, raw_recs, order, sources, ean_sources, si,
                   brand_sources, res_brands, brand_lists, res_brand_items,
                   res_arr, last_alias, same_items_list, alias_similarity_threshold, fn>>

\* the end of append_by_ean, and of combine_by_ean after the last source
AppendByEanReturn ==
    /\ pc = "ean"
    /\ ii > Len(sources[si].val)
    /\ ean_sources' = Append(ean_sources, sources[si].key)
    /\ ii' = 1
    /\ IF si = Len(sources)
       THEN pc' = "brands" /\ si' = 1
       ELSE pc' = pc /\ si' = si + 1
    /\ UNCHANGED <<raw_recs, order, sources, bind, groups, res_eans,
                   brand_sources, res_brands, brand_lists, res_brand_items,
                   res_arr, last_alias, same_items_list, alias_similarity_threshold, fn>>

\* ------------------------------------ group_items_by_brands, brand sources
\* dict brand -> list of items, for the items of one source
RECURSIVE BrandsFrom(_, _, _, _)
BrandsFrom(sour, items, i, brands) ==
    IF i > Len(items) THEN brands
    ELSE LET b == items[i].val.brand
             ref == <<sour, items[i].key>>
         IN  BrandsFrom(sour, items, i + 1,
                        IF HasKey(brands, b) THEN Put(brands, b, Append(Get(brands, b), ref))
                        ELSE Put(brands, b, <<ref>>))
group_items_by_brands(sour, items) == BrandsFrom(sour, items, 1, <<>>)

create_brand_sources(srcs) ==
    [k \in DOMAIN srcs |->
        [key |-> srcs[k].key, val |-> group_items_by_brands(srcs[k].key, srcs[k].val)]]

CreateBrandSources ==
    /\ pc = "brands"
    /\ brand_sources' = create_brand_sources(sources)
    /\ pc' = "match"
    /\ si' = 1
    /\ ii' = 1
    /\ UNCHANGED <<raw_recs, order, sources, bind, groups, ean_sources, res_eans,
                   res_brands, brand_lists, res_brand_items,
                   res_arr, last_alias, same_items_list, alias_similarity_threshold, fn>>

\* ---------------------------------------------------------- match_brands
\* list(d.keys())
Keys(d) == [k \in DOMAIN d |-> d[k].key]

\* faulty variant: every key that is similar to the new spelling is moved to its list
match_brand_Fuse(rb, bl, brand_obj) ==
    IF HasKey(rb, brand_obj.name)
    THEN [res_brands |-> rb,
          brand_lists |-> [bl EXCEPT ![Get(rb, brand_obj.name)] = Append(@, brand_obj)]]
    ELSE IF rb # <<>> /\ ExtractOne(brand_obj.name, Keys(rb)).score >= BrandThreshold
    THEN LET connected_list == Get(rb, ExtractOne(brand_obj.name, Keys(rb)).choice)
             fused == [k \in DOMAIN rb |->
                         IF TokenSetRatio(brand_obj.name, rb[k].key) >= BrandThreshold
                         THEN [key |-> rb[k].key, val |-> connected_list]
                         ELSE rb[k]]
         IN  [res_brands |-> Put(fused, brand_obj.name, connected_list),
              brand_lists |-> [bl EXCEPT ![connected_list] = Append(@, brand_obj)]]
    ELSE [res_brands |-> Put(rb, brand_obj.name, Len(bl) + 1),
          brand_lists |-> Append(bl, <<brand_obj>>)]

\* faulty variant: a similar spelling joins the list but is not made a key
match_brand_NoKey(rb, bl, brand_obj) ==
    IF HasKey(rb, brand_obj.name)
    THEN [res_brands |-> rb,
          brand_lists |-> [bl EXCEPT ![Get(rb, brand_obj.name)] = Append(@, brand_obj)]]
    ELSE IF rb # <<>> /\ ExtractOne(brand_obj.name, Keys(rb)).score >= BrandThreshold
    THEN [res_brands |-> rb,
          brand_lists |-> [bl EXCEPT ![Get(rb, ExtractOne(brand_obj.name, Keys(rb)).choice)] =
                              Append(@, brand_obj)]]
    ELSE [res_brands |-> Put(rb, brand_obj.name, Len(bl) + 1),
          brand_lists |-> Append(bl, <<brand_obj>>)]

\* the body of the inner loop: res_brands and the connected lists after brand_obj
match_brand(rb, bl, brand_obj) ==
    IF HasKey(rb, brand_obj.name)
    THEN \* exact matching
         [res_brands |-> rb,
          brand_lists |-> [bl EXCEPT ![Get(rb, brand_obj.name)] = Append(@, brand_obj)]]
    ELSE IF rb # <<>>
    THEN LET f == ExtractOne(brand_obj.name, Keys(rb))
         IN  IF f.score >= BrandThreshold
             THEN LET connected_list == Get(rb, f.choice)
                  IN  [res_brands |-> Put(rb, brand_obj.name, connected_list),
                       brand_lists |-> [bl EXCEPT ![connected_list] = Append(@, brand_obj)]]
             ELSE [res_brands |-> Put(rb, brand_obj.name, Len(bl) + 1),
                   brand_lists |-> Append(bl, <<brand_obj>>)]
    ELSE [res_brands |-> Put(rb, brand_obj.name, Len(bl) + 1),
          brand_lists |-> Append(bl, <<brand_obj>>)]

\* one iteration of the inner loop: one (source, brand, items) triple
MatchBrandsStep ==
    /\ pc = "match"
    /\ si <= Len(brand_sources)
    /\ ii <= Len(brand_sources[si].val)
    /\ LET brand_obj == [name |-> brand_sources[si].val[ii].key,
                         source |-> brand_sources[si].key,
                         items |-> brand_sources[si].val[ii].val]
           r == match_brand(res_brands, brand_lists, brand_obj)
       IN  /\ res_brands' = r.res_brands
           /\ brand_lists' = r.brand_lists
    /\ ii' = ii + 1
    /\ UNCHANGED <<pc, raw_recs, order, sources, bind, groups, ean_sources, res_eans,
                   si, brand_sources, res_brand_items,
                   res_arr, last_alias, same_items_list, alias_similarity_threshold, fn>>

\* the outer loop of match_brands moves to the next source
MatchBrandsNextSource ==
    /\ pc = "match"
    /\ si <= Len(brand_sources)
    /\ ii > Len(brand_sources[si].val)
    /\ si' = si + 1
    /\ ii' = 1
    /\ UNCHANGED <<pc, raw_recs, order, sources, bind, groups, ean_sources, res_eans,
                   brand_sources, res_brands, brand_lists, res_brand_items,
                   res_arr, last_alias, same_items_list, alias_similarity_threshold, fn>>

\* [rec for brand_obj in brand_list for rec in brand_obj.items]
RECURSIVE ItemsOf(_, _)
ItemsOf(brand_list, k) ==
    IF k > Len(brand_list) THEN <<>>
    ELSE brand_list[k].items \o ItemsOf(brand_list, k + 1)

\* match_brands returns; group_items_by_similar_brands builds the item lists
GroupItemsBySimilarBrandsReturn ==
    /\ pc = "match"
    /\ si > Len(brand_sources)
    /\ res_brand_items' =
          [k \in DOMAIN res_brands |->
              [key |-> res_brands[k].key,
               val |-> ItemsOf(brand_lists[res_brands[k].val], 1)]]
    /\ pc' = "alias"
    /\ si' = 1
    /\ ii' = 1
    /\ UNCHANGED <<raw_recs, order, sources, bind, groups, ean_sources, res_eans,
                   brand_sources, res_brands, brand_lists,
                   res_arr, last_alias, same_items_list, alias_similarity_threshold, fn>>

\* -------------------------------------------------------- append_by_alias
same_source(item, new_sour) == Item(item).source_name = new_sour

\* faulty variant: the 'bind' list of the candidate is not looked at
not_bound_yet_NoBindCheck(item, new_sour) == ~ same_source(item, new_sour)

not_bound_yet(item, new_sour) ==
    IF same_source(item, new_sour) THEN FALSE
    ELSE IF HasBind(item)
    THEN ~ \E k \in DOMAIN groups[bind[item]] : same_source(groups[bind[item]][k], new_sour)
    ELSE TRUE

\* faulty variant: the weight key is not compared
check_item_AnyWeight(item, wm, new_sour) == not_bound_yet(item, new_sour)

\* faulty variant: a candidate that has a 'bind' list is never taken
check_item_UnboundOnly(item, wm, new_sour) ==
    Item(item).wm = wm /\ ~ same_source(item, new_sour) /\ ~ HasBind(item)

check_item(item, wm, new_sour) == Item(item).wm = wm /\ not_bound_yet(item, new_sour)

\* filter(check_item, brand_items)
Candidates(brand_items, wm, new_sour) ==
    LET Test(item) == check_item(item, wm, new_sour)
    IN  SelectSeq(brand_items, Test)

\* faulty variant: the loop never breaks, the last candidate is taken
FirstWithAlias_Last(cands, a, k) == cands[Len(cands)]

\* for item in filter(...): if get_alias(item) == most_similar_alias: break
RECURSIVE FirstWithAlias(_, _, _)
FirstWithAlias(cands, a, k) ==
    IF k >= Len(cands) THEN cands[Len(cands)]
    ELSE IF Item(cands[k]).alias = a THEN cands[k]
    ELSE FirstWithAlias(cands, a, k + 1)

\* faulty variant: the membership test always fails
ListIn_Never(b, lst, heap) == FALSE

\* faulty variant: items bound by code are matched by alias again
resolved_Never(new_item) == FALSE

\* if 'bind' in new_item: continue
resolved(new_item) == HasBind(new_item)

\* x in lst, for lists of lists: the same object or an equal one
ListIn(b, lst, heap) == \E k \in DOMAIN lst : lst[k] = b \/ heap[lst[k]] = heap[b]

\* one iteration of the loop over new_items.values()
AppendByAliasItem ==
    /\ pc = "alias"
    /\ si <= Len(sources)
    /\ ii <= Len(sources[si].val)
    /\ LET new_sour == sources[si].key
           new_item == <<new_sour, sources[si].val[ii].key>>
           alias == Item(new_item).alias
           brand == Item(new_item).brand
           wm == Item(new_item).wm
       IN  IF resolved(new_item)
           THEN /\ last_alias' = [kind |-> "bound", new_item |-> new_item]
                /\ UNCHANGED <<pc, bind, groups, res_arr>>
           ELSE IF ~ HasKey(res_brand_items, brand)
           THEN /\ pc' = "KeyError"
                /\ last_alias' = [kind |-> "error", new_item |-> new_item]
                /\ UNCHANGED <<bind, groups, res_arr>>
           ELSE LET cands == Candidates(Get(res_brand_items, brand), wm, new_sour)
                    aliases == [k \in DOMAIN cands |-> Item(cands[k]).alias]
                IN  IF cands = <<>>
                    THEN /\ last_alias' = [kind |-> "none", new_item |-> new_item]
                         /\ UNCHANGED <<pc, bind, groups, res_arr>>
                    ELSE LET f == ExtractOne(alias, aliases)
                         IN  IF f.score >= alias_similarity_threshold
                             THEN LET item == FirstWithAlias(cands, f.choice, 1)
                                      isnew == ~ HasBind(item)
                                      b == IF isnew THEN Len(groups) + 1 ELSE bind[item]
                                      heap == IF isnew
                                              THEN Append(groups, <<item, new_item>>)
                                              ELSE [groups EXCEPT ![b] = Append(@, new_item)]
                                  IN  /\ groups' = heap
                                      /\ bind' = SetBind(bind, item, b)
                                      /\ res_arr' = IF ListIn(b, res_arr, heap) THEN res_arr
                                                    ELSE Append(res_arr, b)
                                      /\ last_alias' =
                                            [kind |-> "append", new_item |-> new_item,
                                             item |-> item, bind |-> b,
                                             before |-> IF isnew THEN <<item>> ELSE groups[b]]
                                      /\ UNCHANGED pc
                             ELSE /\ last_alias' = [kind |-> "low", new_item |-> new_item]
                                  /\ UNCHANGED <<pc, bind, groups, res_arr>>
    /\ ii' = ii + 1
    /\ UNCHANGED <<raw_recs, order, sources, ean_sources, res_eans, si,
                   brand_sources, res_brands, brand_lists, res_brand_items,
                   same_items_list, alias_similarity_threshold, fn>>

\* the end of append_by_alias, and of combine_items_by_alias after the last source
AppendByAliasReturn ==
    /\ pc = "alias"
    /\ si <= Len(sources)
    /\ ii > Len(sources[si].val)
    /\ ii' = 1
    /\ si' = si + 1
    /\ pc' = IF si = Len(sources) THEN "merge" ELSE pc
    /\ UNCHANGED <<raw_recs, order, sources, bind, groups, ean_sources, res_eans,
                   brand_sources, res_brands, brand_lists, res_brand_items,
                   res_arr, last_alias, same_items_list, alias_similarity_threshold, fn>>

\* ------------------------------------------------- __main__: the merge
\* list(res_eans.values())
Values(d) == [k \in DOMAIN d |-> d[k].val]

res_first == Values(res_eans)

\* faulty variant: every list of res_arr is kept
res_second_KeepAll == res_arr

res_second ==
    LET Keep(same_items) == ~ ListIn(same_items, res_first, groups)
    IN  SelectSeq(res_arr, Keep)

Merge ==
    /\ pc = "merge"
    /\ same_items_list' = res_first \o res_second
    /\ pc' = "done"
    /\ UNCHANGED <<raw_recs, order, sources, bind, groups, ean_sources, res_eans, si, ii,
                   brand_sources, res_brands, brand_lists, res_brand_items,
                   res_arr, last_alias, alias_similarity_threshold, fn>>

\* ------------------------------------------------------- specifications
Next ==
    \/ AddSource
    \/ AppendByEanItem
    \/ AppendByEanReturn
    \/ CreateBrandSources
    \/ MatchBrandsStep
    \/ MatchBrandsNextSource
    \/ GroupItemsBySimilarBrandsReturn
    \/ AppendByAliasItem
    \/ AppendByAliasReturn
    \/ Merge

\* the sources added in the order of __main__
FileOrder == <<1, 2, 3>>
\* every order of adding them
Orders == {o \in [1..NumSources -> Sources] : \A i, j \in 1..NumSources : o[i] = o[j] => i = j}

\* Spec: records that differ in their codes and aliases (one brand, one weight key)
RecsMain(s) ==
    {[brand |-> BrA, wm |-> W1, alias |-> a, EANs |-> e] :
        a \in {AlX, AlXY, AlY},
        e \in {<<>>, <<1>>, <<OwnCode(s)>>}}

Init ==
    /\ InitState
    /\ fn = [op |-> "none"]
    /\ InputsFrom(RecsMain)
    /\ order = FileOrder
    /\ alias_similarity_threshold = AliasThreshold

Spec == Init /\ [][Next]_vars

\* SpecEan: records that differ in their code lists, sources added in any order
RecsEan(s) ==
    {[brand |-> BrA, wm |-> W1, alias |-> AlX, EANs |-> e] :
        e \in {<<>>, <<1>>, <<2>>, <<1, 2>>, <<2, 1>>}}

InitEan ==
    /\ InitState
    /\ fn = [op |-> "none"]
    /\ InputsFrom(RecsEan)
    /\ order \in Orders
    /\ alias_similarity_threshold = AliasThreshold

SpecEan == InitEan /\ [][Next]_vars

\* SpecBrand: records that differ in brand spelling and weight key
RecsBrand(s) ==
    {[brand |-> b, wm |-> w, alias |-> AlX, EANs |-> e] :
        b \in {BrA, BrB, BrAB}, w \in {W1}, e \in {<<OwnCode(s)>>, <<OwnCode(s) + 1>>}}

InitBrand ==
    /\ InitState
    /\ fn = [op |-> "none"]
    /\ InputsFrom(RecsBrand)
    /\ order = FileOrder
    /\ alias_similarity_threshold = AliasThreshold

SpecBrand == InitBrand /\ [][Next]_vars

\* Spec0: the records of Spec, append_by_alias called with threshold 0
Init0 ==
    /\ InitState
    /\ fn = [op |-> "none"]
    /\ InputsFrom(RecsMain)
    /\ order = FileOrder
    /\ alias_similarity_threshold = 0

Spec0 == Init0 /\ [][Next]_vars

\* Spec100: aliases that differ in word order or by a word, threshold 100
RecsExact(s) ==
    {[brand |-> BrA, wm |-> W1, alias |-> a, EANs |-> e] :
        a \in {AlX, AlY, AlXY, AlYX},
        e \in {<<1>>, <<OwnCode(s)>>}}

Init100 ==
    /\ InitState
    /\ fn = [op |-> "none"]
    /\ InputsFrom(RecsExact)
    /\ order = FileOrder
    /\ alias_similarity_threshold = 100

Spec100 == Init100 /\ [][Next]_vars

\* SpecWm: records that differ in brand, weight key and code
RecsWm(s) ==
    {[brand |-> b, wm |-> w, alias |-> AlX, EANs |-> e] :
        b \in {BrA, BrB}, w \in {W1, W2}, e \in {<<1>>, <<OwnCode(s)>>}}

InitWm ==
    /\ InitState
    /\ fn = [op |-> "none"]
    /\ InputsFrom(RecsWm)
    /\ order = FileOrder
    /\ alias_similarity_threshold = AliasThreshold

SpecWm == InitWm /\ [][Next]_vars

\* ------------------------------------------------------------- the claims
\* the items of all sources added so far
AllItems ==
    UNION {{<<sources[k].key, sources[k].val[j].key>> : j \in DOMAIN sources[k].val} :
             k \in DOMAIN sources}

Members(b) == Range(groups[b])
AfterExactMatcher == pc \in {"brands", "match", "alias", "merge", "done"}

\* C1: once combine_by_ean has returned, any two items of different sources
\* that carry the same code have the same 'bind' list and are both in it,
\* whatever the order in which the sources were added.
C1_SameCodeSameGroup ==
    AfterExactMatcher =>
        \A i, j \in AllItems :
            (i[1] # j[1] /\ i[2] = j[2]) =>
                /\ HasBind(i) /\ HasBind(j)
                /\ bind[i] = bind[j]
                /\ {i, j} \subseteq Members(bind[i])

\* C1 witness: a code of three sources, added in another order than the files' order
C1_Witness ==
    /\ pc = "brands"
    /\ order # FileOrder
    /\ \E b \in DOMAIN groups : Len(groups[b]) = NumSources

\* C2: no 'bind' list ever holds two members of the same source.
C2_NoSelfMatching ==
    \A b \in DOMAIN groups :
        \A k1, k2 \in DOMAIN groups[b] :
            Item(groups[b][k1]).source_name = Item(groups[b][k2]).source_name => k1 = k2

\* C2 witness: the alias matcher passed over a candidate with the same weight key
\* in a similar brand because its list holds an item of the new item's source
C2_Witness ==
    /\ pc = "alias"
    /\ last_alias.kind \in {"none", "low", "append"}
    /\ \E k \in DOMAIN res_brand_items :
        /\ res_brand_items[k].key = Item(last_alias.new_item).brand
        /\ \E c \in Range(res_brand_items[k].val) :
            /\ Item(c).wm = Item(last_alias.new_item).wm
            /\ c[1] # last_alias.new_item[1]
            /\ HasBind(c)
            /\ last_alias.new_item \notin Members(bind[c])
            /\ \E m \in Members(bind[c]) : m[1] = last_alias.new_item[1]

\* C6 (as claimed): every member of a 'bind' list has a 'bind' key that refers to that list.
C6_MembersReferToGroup ==
    \A b \in DOMAIN groups :
        \A m \in Members(b) : HasBind(m) /\ bind[m] = b

\* the (source, id) pairs of the members of a list
Records(b) == {<<Item(m).source_name, Item(m).id>> : m \in Members(b)}

\* two spellings of one brand cluster
SameCluster(b1, b2) ==
    \/ b1 = b2
    \/ /\ HasKey(res_brands, b1) /\ HasKey(res_brands, b2)
       /\ Get(res_brands, b1) = Get(res_brands, b2)

\* C3 (as claimed): no two lists of the result share a (source, id) pair.
C3_ResultDisjoint ==
    pc = "done" =>
        \A k1, k2 \in DOMAIN same_items_list :
            k1 # k2 => Records(same_items_list[k1]) \cap Records(same_items_list[k2]) = {}

\* C4 (as claimed): three sources with one record each, of one alias, one weight
\* key and one brand cluster, no code in common: the result holds one list of
\* exactly these three records.
C4_Scenario ==
    /\ \A s \in Sources : Len(raw_recs[s]) = 1
    /\ \A s, t \in Sources :
        /\ raw_recs[s][1].alias = raw_recs[t][1].alias
        /\ raw_recs[s][1].wm = raw_recs[t][1].wm
        /\ SameCluster(raw_recs[s][1].brand, raw_recs[t][1].brand)
        /\ s # t => Range(raw_recs[s][1].EANs) \cap Range(raw_recs[t][1].EANs) = {}

C4_ThreeInOneGroup ==
    (pc = "done" /\ C4_Scenario) =>
        \E k \in DOMAIN same_items_list :
            /\ Len(groups[same_items_list[k]]) = NumSources
            /\ Records(same_items_list[k]) = {<<s, raw_recs[s][1].id>> : s \in Sources}

\* C5 (as claimed): a record without codes that has an eligible candidate in
\* another source (same brand cluster, same weight key, alias score at or above
\* the threshold) is in a list of the result together with an item of another source.
C5_ZeroCodeMatchedByAlias ==
    pc = "done" =>
        \A s \in Sources : \A i \in DOMAIN raw_recs[s] :
            ( /\ raw_recs[s][i].EANs = <<>>
              /\ \E c \in AllItems :
                    /\ not_bound_yet(c, s)
                    /\ SameCluster(Item(c).brand, raw_recs[s][i].brand)
                    /\ Item(c).wm = raw_recs[s][i].wm
                    /\ TokenSetRatio(raw_recs[s][i].alias, Item(c).alias)
                          >= alias_similarity_threshold )
            => \E k \in DOMAIN same_items_list :
                    /\ <<s, raw_recs[s][i].id>> \in Records(same_items_list[k])
                    /\ \E m \in Members(same_items_list[k]) : Item(m).source_name # s

\* an item bound by the exact matcher: its 'bind' is the list of its own code
CodeBound(item) ==
    /\ HasKey(res_eans, item[2])
    /\ HasBind(item)
    /\ bind[item] = Get(res_eans, item[2])

\* C7: the alias matcher never appends an item bound by code as a new member,
\* and in the result such an item is a member of its code list and of no other list.
C7_CodeBoundNotReconsidered ==
    /\ last_alias.kind = "append" => ~ CodeBound(last_alias.new_item)
    /\ pc = "done" =>
          \A item \in AllItems :
              CodeBound(item) =>
                  /\ \E k \in DOMAIN same_items_list : same_items_list[k] = bind[item]
                  /\ \A k1, k2 \in DOMAIN same_items_list :
                        ( /\ item \in Members(same_items_list[k1])
                          /\ item \in Members(same_items_list[k2]) )
                        => (k1 = k2 /\ same_items_list[k1] = bind[item])

\* C7 witness: the alias matcher skips an item bound by code whose list it has
\* already extended with an item of an earlier source
C7_Witness ==
    /\ pc = "alias"
    /\ last_alias.kind = "bound"
    /\ CodeBound(last_alias.new_item)
    /\ \E k \in DOMAIN res_arr : res_arr[k] = bind[last_alias.new_item]

\* a list that the alias matcher created or extended
AliasTouched(b) ==
    \E m \in Members(b) : ~ (HasKey(res_eans, m[2]) /\ Get(res_eans, m[2]) = b)

\* C8: res_arr holds every list the alias matcher created or extended, once.
C8_ResArrOnce ==
    /\ \A k1, k2 \in DOMAIN res_arr :
          (res_arr[k1] = res_arr[k2] \/ groups[res_arr[k1]] = groups[res_arr[k2]]) => k1 = k2
    /\ \A b \in DOMAIN groups :
          AliasTouched(b) => \E k \in DOMAIN res_arr : res_arr[k] = b

\* C8 witness: a list created by the alias matcher got a member in two source passes
C8_Witness ==
    /\ pc = "done"
    /\ \E k \in DOMAIN res_arr :
          /\ Len(groups[res_arr[k]]) = NumSources
          /\ \A j \in DOMAIN res_eans : res_eans[j].val # res_arr[k]

\* how often a list with the members of b occurs in the result
Occurrences(b) ==
    Cardinality({k \in DOMAIN same_items_list : groups[same_items_list[k]] = groups[b]})

CodeGroups == {res_eans[j].val : j \in DOMAIN res_eans}

\* C9: the result holds every code list once, every alias list whose members
\* differ from those of every code list once, and nothing else; a code list that
\* the alias matcher extended occurs once, with the added members.
C9_MergedResult ==
    pc = "done" =>
        /\ \A b \in CodeGroups : Occurrences(b) = 1
        /\ \A k \in DOMAIN res_arr :
              (\A c \in CodeGroups : Members(c) # Members(res_arr[k]))
                  => Occurrences(res_arr[k]) = 1
        /\ \A k \in DOMAIN same_items_list :
              same_items_list[k] \in CodeGroups \cup Range(res_arr)
        /\ \A b \in CodeGroups :
              AliasTouched(b) =>
                  Cardinality({k \in DOMAIN same_items_list : same_items_list[k] = b}) = 1

\* C9 witness: a code list that the alias matcher extended, in the result
C9_Witness ==
    /\ pc = "done"
    /\ \E b \in CodeGroups :
          /\ AliasTouched(b)
          /\ \E k \in DOMAIN res_arr : res_arr[k] = b
          /\ \E k \in DOMAIN same_items_list : same_items_list[k] = b

\* C10: after the brand clusterer every brand of an item is a key of
\* res_brand_items (the lookup of append_by_alias never fails), two spellings
\* of one connected list have the same item list, and every item is in the
\* item list of exactly one connected list, once.
AfterBrandClusterer == pc \in {"alias", "merge", "done", "KeyError"}

RECURSIVE Count(_, _)
Count(seq, x) ==
    IF seq = <<>> THEN 0
    ELSE (IF Head(seq) = x THEN 1 ELSE 0) + Count(Tail(seq), x)

C10_BrandClusters ==
    AfterBrandClusterer =>
        /\ pc # "KeyError"
        /\ \A item \in AllItems : HasKey(res_brand_items, Item(item).brand)
        /\ \A k1, k2 \in DOMAIN res_brands :
              res_brands[k1].val = res_brands[k2].val =>
                  Get(res_brand_items, res_brands[k1].key)
                      = Get(res_brand_items, res_brands[k2].key)
        /\ \A item \in AllItems :
              /\ Cardinality({l \in DOMAIN brand_lists :
                                 Count(ItemsOf(brand_lists[l], 1), item) > 0}) = 1
              /\ \A k \in DOMAIN res_brand_items :
                    Count(res_brand_items[k].val, item) =
                        IF SameCluster(res_brand_items[k].key, Item(item).brand)
                        THEN 1 ELSE 0

\* C10 witness: two spellings in one cluster, another cluster beside it, and
\* the alias matcher has looked up a brand
C10_Witness ==
    /\ pc = "alias"
    /\ last_alias.kind # "init"
    /\ Len(brand_lists) >= 2
    /\ \E k1, k2 \in DOMAIN res_brands :
          k1 # k2 /\ res_brands[k1].val = res_brands[k2].val

C12_OnlyIdenticalAlias ==
    last_alias.kind = "append" =>
        Item(last_alias.new_item).alias = Item(last_alias.item).alias

\* C12 (amended): with threshold 100 an item is appended only when the
\* token-set score of its alias against the alias of the candidate it is
\* merged with is 100.
C12_OnlyFullScore ==
    last_alias.kind = "append" =>
        TokenSetRatio(Item(last_alias.new_item).alias, Item(last_alias.item).alias) = 100

\* C12 witness: an append at threshold 100 of an alias with the words of the
\* candidate's alias in another order
C12_Witness ==
    /\ alias_similarity_threshold = 100
    /\ last_alias.kind = "append"
    /\ Item(last_alias.new_item).alias # Item(last_alias.item).alias
    /\ Range(Item(last_alias.new_item).alias) = Range(Item(last_alias.item).alias)

\* an item that is in no list
Ungrouped(item) == \A b \in DOMAIN groups : item \notin Members(b)

SourcesWith(ean) == {sources[k].key : k \in {n \in DOMAIN sources : HasKey(sources[n].val, ean)}}
AllCodes == {item[2] : item \in AllItems}

\* C15: when combine_by_ean returns, the keys of res_eans are the codes of two
\* or more sources, and the list of a code holds one item of each source that
\* has the code and nothing else.
C15_CodeGroups ==
    pc = "brands" =>
        /\ \A ean \in AllCodes : HasKey(res_eans, ean) <=> Cardinality(SourcesWith(ean)) >= 2
        /\ \A k \in DOMAIN res_eans :
              /\ res_eans[k].key \in AllCodes
              /\ Members(res_eans[k].val) = {<<s, res_eans[k].key>> : s \in SourcesWith(res_eans[k].key)}
              /\ Len(groups[res_eans[k].val]) = Cardinality(SourcesWith(res_eans[k].key))

\* C15 witness: a code of all sources, a code of two sources and a code of one
C15_Witness ==
    /\ pc = "brands"
    /\ \E e1, e2 \in AllCodes :
          /\ Cardinality(SourcesWith(e1)) = NumSources
          /\ Cardinality(SourcesWith(e2)) = 1
          /\ HasKey(res_eans, e1)

\* C16: no step changes the connected list of a spelling that is a key of
\* res_brands, and no step changes a connected list other than by appending.
C16_ClustersStable ==
    [][ /\ \A k \in DOMAIN res_brands :
              k \in DOMAIN res_brands' /\ res_brands'[k] = res_brands[k]
        /\ \A l \in DOMAIN brand_lists :
              /\ l \in DOMAIN brand_lists'
              /\ Len(brand_lists'[l]) >= Len(brand_lists[l])
              /\ SubSeq(brand_lists'[l], 1, Len(brand_lists[l])) = brand_lists[l] ]_vars

\* C16 witness: a spelling joined one of two clusters whose keys both score at
\* or above the threshold against it
C16_Witness ==
    \E k1, k2, k3 \in DOMAIN res_brands :
        /\ k1 < k2 /\ k2 < k3
        /\ res_brands[k1].val # res_brands[k2].val
        /\ TokenSetRatio(res_brands[k3].key, res_brands[k1].key) >= BrandThreshold
        /\ TokenSetRatio(res_brands[k3].key, res_brands[k2].key) >= BrandThreshold

\* C17: an appended item has the weight key of the candidate it was matched
\* with, its brand is in the candidate's cluster, and the list held no item
\* of its source before the append.
C17_AppendWithinBucket ==
    last_alias.kind = "append" =>
        /\ Item(last_alias.new_item).wm = Item(last_alias.item).wm
        /\ SameCluster(Item(last_alias.new_item).brand, Item(last_alias.item).brand)
        /\ \A m \in Range(last_alias.before) :
              Item(m).source_name # Item(last_alias.new_item).source_name

\* C17 witness: an append while another source holds an item of another weight
\* key and an item of another brand cluster
C17_Witness ==
    /\ last_alias.kind = "append"
    /\ \E c \in AllItems :
          /\ c[1] # last_alias.new_item[1]
          /\ Item(c).wm # Item(last_alias.new_item).wm
    /\ Len(brand_lists) >= 2

\* the last record of a source, in input order, that carries a code
LastRecWith(s, ean) ==
    raw_recs[s][CHOOSE i \in DOMAIN raw_recs[s] :
                   /\ ean \in Range(raw_recs[s][i].EANs)
                   /\ \A j \in DOMAIN raw_recs[s] :
                         ean \in Range(raw_recs[s][j].EANs) => j <= i]

\* C18: the map of a source has one entry for each code of its records, the
\* entry of a code being the last record that carries it, with that code.
C18_LastRecordWins ==
    \A k \in DOMAIN sources :
        LET s == sources[k].key
            d == sources[k].val
        IN  /\ \A n1, n2 \in DOMAIN d : d[n1].key = d[n2].key => n1 = n2
            /\ {d[n].key : n \in DOMAIN d} =
                  UNION {Range(raw_recs[s][i].EANs) : i \in DOMAIN raw_recs[s]}
            /\ \A n \in DOMAIN d :
                  d[n].val = NewItem(s, LastRecWith(s, d[n].key), d[n].key)

\* C18 witness: a source with two records that carry the same code
C18_Witness ==
    \E k \in DOMAIN sources :
        \E i, j \in DOMAIN raw_recs[sources[k].key] :
            /\ i < j
            /\ Range(raw_recs[sources[k].key][i].EANs)
                  \cap Range(raw_recs[sources[k].key][j].EANs) # {}

\* ---------------------------------------------------------- Size Parser
\* Strings are sequences of characters.
MaxSizeLen == 3        \* characters of a size string

Digits == {"0", "1"}
SizeChars == Digits \cup {".", ",", " ", "m"}
StringsUpTo(chars, n) == UNION {[1..k -> chars] : k \in 0..n}

\* s.split(' ', 1)[0] and s.split(' ', 1)[1]
RECURSIVE FirstBlank(_, _)
FirstBlank(s, i) ==
    IF i > Len(s) THEN 0 ELSE IF s[i] = " " THEN i ELSE FirstBlank(s, i + 1)
SplitHead(s) == IF FirstBlank(s, 1) = 0 THEN s ELSE SubSeq(s, 1, FirstBlank(s, 1) - 1)
SplitTail(s) == SubSeq(s, FirstBlank(s, 1) + 1, Len(s))

\* s.replace(',', '.')
CommasToPoints(s) == [i \in DOMAIN s |-> IF s[i] = "," THEN "." ELSE s[i]]

\* s.replace(c, '')
Without(s, c) == LET Keep(x) == x # c IN SelectSeq(s, Keep)
CountOf(s, c) == Len(s) - Len(Without(s, c))

\* str.isdigit(): not empty and digits only
IsDigit(s) == s # <<>> /\ \A i \in DOMAIN s : s[i] \in Digits

\* float(s) for a string of digits and points that holds a digit: the digits
\* and the number of digits behind the point, or ValueError
Float(s) ==
    IF CountOf(s, ".") > 1 THEN [kind |-> "ValueError"]
    ELSE [kind |-> "float",
          digits |-> Without(s, "."),
          scale |-> IF CountOf(s, ".") = 0 THEN 0
                    ELSE Len(s) - (CHOOSE i \in DOMAIN s : s[i] = ".")]

\* the float is not 0.0
Truthy(amount) == amount.kind = "float" /\ \E i \in DOMAIN amount.digits : amount.digits[i] # "0"

parse_size_amount(s) ==
    IF s # <<>>
    THEN LET t == CommasToPoints(SplitHead(s))
         IN  IF IsDigit(Without(t, ".")) THEN Float(t) ELSE [kind |-> "None"]
    ELSE [kind |-> "None"]

\* str.strip()
RECURSIVE LStrip(_)
LStrip(s) == IF s # <<>> /\ Head(s) = " " THEN LStrip(Tail(s)) ELSE s
RECURSIVE RStrip(_)
RStrip(s) == IF s # <<>> /\ s[Len(s)] = " " THEN RStrip(SubSeq(s, 1, Len(s) - 1)) ELSE s
Strip(s) == RStrip(LStrip(s))

parse_size_unit(s) ==
    IF s # <<>> /\ FirstBlank(s, 1) # 0
    THEN [kind |-> "str", text |-> Strip(SplitTail(s))]
    ELSE [kind |-> "None"]

\* the dict returned by parse_size, or the error that leaves it
parse_size(s) ==
    LET amount == parse_size_amount(s)
        unit == parse_size_unit(s)
    IN  IF amount.kind = "ValueError" THEN [kind |-> "ValueError"]
        ELSE [kind |-> "dict",
              has_Weight |-> Truthy(amount),
              has_Unit |-> unit.kind = "str" /\ unit.text # <<>>]

\* the pipeline does not run in the specifications of single functions
PipelineIdle ==
    /\ InitState
    /\ raw_recs = <<<<>>, <<>>, <<>>>>
    /\ order = FileOrder
    /\ alias_similarity_threshold = AliasThreshold

pipeline_vars == <<pc, raw_recs, order, sources, bind, groups, ean_sources, res_eans, si, ii,
                   brand_sources, res_brands, brand_lists, res_brand_items, res_arr,
                   last_alias, same_items_list, alias_similarity_threshold>>

InitSize ==
    /\ PipelineIdle
    /\ \E s \in StringsUpTo(SizeChars, MaxSizeLen) : fn = [op |-> "parse_size", s |-> s]

ParseSize ==
    /\ fn.op = "parse_size"
    /\ fn' = [op |-> "parse_size returned", s |-> fn.s,
              amount |-> parse_size_amount(fn.s), rec |-> parse_size(fn.s)]
    /\ UNCHANGED pipeline_vars

NextSize == ParseSize

SpecSize == InitSize /\ [][NextSize]_vars

\* the first token, commas read as points, is digits with at most one point
WellFormedAmount(s) ==
    LET t == CommasToPoints(SplitHead(s))
    IN  /\ \A i \in DOMAIN t : t[i] \in Digits \cup {"."}
        /\ CountOf(t, ".") <= 1

\* C13 (as claimed): for a size string whose first token is not digits with at
\* most one point, parse_size_amount returns None without an error and
\* parse_size returns a dict without 'Weight'.
C13_MalformedAmountIsNone ==
    (fn.op = "parse_size returned" /\ ~ WellFormedAmount(fn.s)) =>
        /\ fn.amount.kind = "None"
        /\ fn.rec.kind = "dict"
        /\ ~ fn.rec.has_Weight

\* ------------------------------------------------ create_item: the brand
\* A brand text is a sequence of characters and whole stop words.
MaxBrandLen == 5       \* characters and stop words of a raw brand text

StopWords == <<"professional", "cosmetics", "professionnel">>
BrandChars == {" ", "a", "A"} \cup Range(StopWords)
Other == <<"o", "t", "h", "e", "r">>

\* str.lower()
Lower(s) == [i \in DOMAIN s |-> IF s[i] = "A" THEN "a" ELSE s[i]]

\* len(s), a stop word counting its letters
CharLen(c) ==
    IF c = "professional" THEN 12
    ELSE IF c = "cosmetics" THEN 9
    ELSE IF c = "professionnel" THEN 13
    ELSE 1
RECURSIVE StrLen(_)
StrLen(s) == IF s = <<>> THEN 0 ELSE CharLen(Head(s)) + StrLen(Tail(s))

\* for common_word in [...]: brand = brand.replace(common_word, '')
RECURSIVE RemoveCommonWords(_, _)
RemoveCommonWords(brand, k) ==
    IF k > Len(StopWords) THEN brand
    ELSE RemoveCommonWords(Without(brand, StopWords[k]), k + 1)

\* the 'brand' of the dict that create_item returns
create_item_brand(raw) ==
    LET brand == RemoveCommonWords(Lower(raw), 1)
    IN  Strip(IF StrLen(brand) <= 3 THEN Other ELSE brand)

InitClean ==
    /\ PipelineIdle
    /\ \E b \in StringsUpTo(BrandChars, MaxBrandLen) : fn = [op |-> "create_item", Brand |-> b]

CreateItem ==
    /\ fn.op = "create_item"
    /\ fn' = [op |-> "create_item returned", Brand |-> fn.Brand,
              brand |-> create_item_brand(fn.Brand)]
    /\ UNCHANGED pipeline_vars

NextClean == CreateItem

SpecClean == InitClean /\ [][NextClean]_vars

\* C14 (as claimed): the stored brand is "other" or a text whose length after
\* stop-word removal and trimming is above 3; a brand whose cleaned, trimmed
\* length is 3 or less is stored as "other".
C14_ShortBrandIsOther ==
    fn.op = "create_item returned" =>
        LET cleaned == Strip(RemoveCommonWords(Lower(fn.Brand), 1))
        IN  /\ fn.brand = Other \/ StrLen(cleaned) > 3
            /\ StrLen(cleaned) <= 3 => fn.brand = Other

====
